---- MODULE Spec2Model ----
(***************************************************************************)
(* ChatService (src/app/services/chat.py): the message ledger, the system  *)
(* string with its <documents> section, the scraped-content store and the  *)
(* rolling eviction, with the /chat/message route that wraps a turn.       *)
(*                                                                         *)
(* A Python string is a sequence of symbols.  "O" is the text <documents>, *)
(* "C" is the text </documents>, "nl" a newline, "sp" an indentation; any  *)
(* other symbol is a piece of text that holds neither marker.              *)
(***************************************************************************)
EXTENDS Naturals, Sequences, FiniteSets

VARIABLES system, messages, messages_token_counts, total_messages_tokens,
          purged_messages, purged_messages_token_count, scraped_content,
          last, threads

vars == <<system, messages, messages_token_counts, total_messages_tokens,
          purged_messages, purged_messages_token_count, scraped_content,
          last, threads>>

ledger == <<messages, messages_token_counts, total_messages_tokens>>
archive == <<purged_messages, purged_messages_token_count>>

(* ---------------------------- bounds ---------------------------------- *)

\* The budget self.max_message_tokens (65536 in the source), scaled down.
max_message_tokens == 12
\* Messages ever appended to the ledger (live or purged), head included.
MaxMessages == 5
\* Longest system string the model follows.
MaxSysLen == 26
\* Worker threads of the executor that the model follows.
MaxThreads == 2

(* ---------------------------- symbols --------------------------------- *)

O == "O"
C == "C"
Whitespace == {"nl", "sp"}

\* URLs and contents handed to update_context / remove_url_content.
Urls == {<<"a">>, <<"b">>}
Contents == {<<>>, <<"x">>, <<C>>, <<C, O>>}
\* Texts of user messages and of model replies.
UserTexts == {<<"u">>}
ReplyTexts == {<<"r", "r">>}
\* Python's None where a text is expected: what request.get('message') gives
\* for a body without the key. self.tokenizer.encode(None) raises.
None == <<"None">>

\* The system prompt the deployed singleton is built with: text, one
\* <documents> section holding only whitespace, text.
NBA_SYSTEM_PROMPT == <<"p", O, "nl", "sp", C, "s">>

(* ---------------------------- helpers --------------------------------- *)

RECURSIVE SumSeq(_)
SumSeq(s) == IF s = <<>> THEN 0 ELSE Head(s) + SumSeq(Tail(s))

Contains(s, c) == \E i \in 1..Len(s) : s[i] = c

\* len(self.tokenizer.encode(text)): one token per symbol.
token_count(text) == Len(text)

\* Index of the first element of s at or after position from that equals c,
\* 0 when there is none.
RECURSIVE IndexFrom(_, _, _)
IndexFrom(s, c, from) ==
    IF from > Len(s) THEN 0
    ELSE IF s[from] = c THEN from
    ELSE IndexFrom(s, c, from + 1)

\* re.search(r'(<documents>.*?</documents>)', s, re.DOTALL): the leftmost
\* match, as <<start, end>>, or <<0, 0>>.
re_search(s) ==
    LET i == IndexFrom(s, O, 1)
        j == IF i = 0 THEN 0 ELSE IndexFrom(s, C, i + 1)
    IN  IF j = 0 THEN <<0, 0>> ELSE <<i, j>>

has_match(s) == re_search(s)[2] # 0

\* re.split(pattern, s, flags=re.DOTALL) with one capturing group: the text
\* before each match and the match, then the rest.
RECURSIVE re_split(_)
re_split(s) ==
    LET m == re_search(s)
    IN  IF m[2] = 0 THEN <<s>>
        ELSE <<SubSeq(s, 1, m[1] - 1), SubSeq(s, m[1], m[2])>>
             \o re_split(SubSeq(s, m[2] + 1, Len(s)))

IdxStr(i) == <<"1", "2", "3", "4">>[i]

\* One <document index=...> fragment of the documents section.
document_fragment(idx, url, content) ==
    <<"sp", "<document index=", IdxStr(idx), "><source>">> \o url
    \o <<"</source><document_content>">> \o content
    \o <<"</document_content>", "</document>">>

\* documents_content: the fragments of the store in order, joined by newlines.
RECURSIVE documents_content_from(_, _)
documents_content_from(sc, idx) ==
    IF idx > Len(sc) THEN <<>>
    ELSE (IF idx > 1 THEN <<"nl">> ELSE <<>>)
         \o document_fragment(idx, sc[idx].url, sc[idx].content)
         \o documents_content_from(sc, idx + 1)

documents_content(sc) == documents_content_from(sc, 1)

\* new_system: the text before and after the section around the new section.
new_system(before_docs, sc, after_docs) ==
    before_docs \o <<O, "nl">> \o documents_content(sc) \o <<"nl", C>> \o after_docs

(* ---------------------------- __init__ -------------------------------- *)

RECURSIVE rstrip(_)
rstrip(s) ==
    IF s # <<>> /\ s[Len(s)] \in Whitespace THEN rstrip(SubSeq(s, 1, Len(s) - 1))
    ELSE s

\* A constructor that keeps its argument as given.
init_system_unrepaired(arg) == arg

\* The system string __init__ keeps: the argument, or the argument with an
\* empty documents section appended when one of the two tags is missing.
init_system(arg) ==
    IF ~Contains(arg, O) \/ ~Contains(arg, C)
    THEN IF arg # <<>> THEN rstrip(arg) \o <<"nl", "nl", O, "nl", C>>
         ELSE <<O, "nl", C>>
    ELSE arg

\* What the last call did, as its caller and the log see it: the method, the
\* value returned, whether it raised, whether it called the model, the
\* warnings and errors it logged, whether it overwrote a stored url, the
\* message list it handed to get_llm_response, and whether it ran the
\* re.search for the documents marker pair on self.system.
NoOp == [op |-> "init", ret |-> <<>>, raised |-> FALSE, called_llm |-> FALSE,
         log |-> {}, existing |-> FALSE, sent |-> <<>>, checked |-> FALSE]

\* ChatService.__init__(model, tok_model, system = arg).
construct(arg) ==
    /\ system = init_system(arg)
    /\ purged_messages = <<>>
    /\ purged_messages_token_count = <<>>
    /\ scraped_content = <<>>
    /\ IF system # <<>>
       THEN /\ messages = <<[role |-> "system", content |-> system]>>
            /\ messages_token_counts = <<token_count(system)>>
            /\ total_messages_tokens = token_count(system)
       ELSE /\ messages = <<>>
            /\ messages_token_counts = <<>>
            /\ total_messages_tokens = 0
    /\ last = NoOp

(* ----------------------- _update_system_message ----------------------- *)

\* An update that writes self.system and leaves messages[0] as it was.
_update_system_message_cache_only(sc) ==
    LET parts == re_split(system)
    IN  IF Len(parts) # 3
        THEN UNCHANGED <<system, ledger>>
        ELSE /\ system' = new_system(parts[1], sc, parts[3])
             /\ Len(system') <= MaxSysLen
             /\ UNCHANGED ledger

\* An update that appends a fresh documents section when the split fails.
_update_system_message_repairing(sc) ==
    LET parts == re_split(system)
        new == IF Len(parts) # 3 THEN new_system(system, sc, <<>>)
               ELSE new_system(parts[1], sc, parts[3])
    IN  /\ system' = new
        /\ Len(new) <= MaxSysLen
        /\ IF messages # <<>> /\ messages[1].role = "system"
           THEN LET counts == [messages_token_counts
                                 EXCEPT ![1] = token_count(new)]
                IN  /\ messages' = [messages EXCEPT ![1].content = new]
                    /\ messages_token_counts' = counts
                    /\ total_messages_tokens' = SumSeq(counts)
           ELSE UNCHANGED ledger

\* The effect of self._update_system_message() once the store holds sc.
_update_system_message(sc) ==
    LET parts == re_split(system)
    IN  IF Len(parts) # 3
        THEN UNCHANGED <<system, ledger>>
        ELSE LET new == new_system(parts[1], sc, parts[3])
             IN  /\ system' = new
                 /\ Len(new) <= MaxSysLen
                 /\ IF messages # <<>> /\ messages[1].role = "system"
                    THEN LET counts == [messages_token_counts
                                          EXCEPT ![1] = token_count(new)]
                         IN  /\ messages' = [messages EXCEPT ![1].content = new]
                             /\ messages_token_counts' = counts
                             /\ total_messages_tokens' = SumSeq(counts)
                    ELSE UNCHANGED ledger

(* --------------------------- the store -------------------------------- *)

url_index(sc, url) ==
    IF \E i \in 1..Len(sc) : sc[i].url = url
    THEN CHOOSE i \in 1..Len(sc) : sc[i].url = url
    ELSE 0

Occurs(sub, s) ==
    \E k \in 0..Len(s) :
        k + Len(sub) <= Len(s) /\ SubSeq(s, k + 1, k + Len(sub)) = sub

\* An assignment that moves an overwritten key to the end of the dict.
dict_set_move_to_end(sc, url, content) ==
    LET i == url_index(sc, url)
    IN  Append(SubSeq(sc, 1, i - 1) \o SubSeq(sc, i + 1, Len(sc)),
               [url |-> url, content |-> content])

\* self.scraped_content[url] = content on an insertion-ordered dict.
dict_set(sc, url, content) ==
    LET i == url_index(sc, url)
    IN  IF i = 0 THEN Append(sc, [url |-> url, content |-> content])
        ELSE [sc EXCEPT ![i].content = content]

\* del self.scraped_content[url]
dict_del(sc, url) ==
    LET i == url_index(sc, url)
    IN  SubSeq(sc, 1, i - 1) \o SubSeq(sc, i + 1, Len(sc))

Did(op) == [NoOp EXCEPT !.op = op]
Logged(op, log) == [NoOp EXCEPT !.op = op, !.log = log]

\* What _update_system_message logs: the error "Invalid system message
\* structure" before its early return, or "UPDATING SYSTEM MESSAGE END".
render_log == IF Len(re_split(system)) # 3 THEN {"invalid_structure"} ELSE {"updated"}

\* An update without the "if not content: return" guard.
update_context_unguarded(url, content) ==
    /\ UNCHANGED archive
    /\ scraped_content' = dict_set(scraped_content, url, content)
    /\ _update_system_message(scraped_content')
    /\ last' = Logged("update_context", render_log)

update_context(url, content) ==
    /\ UNCHANGED archive
    /\ IF content = <<>>
       THEN /\ UNCHANGED <<scraped_content, system, ledger>>
            /\ last' = Logged("update_context", {"no_content"})
       ELSE /\ scraped_content' = dict_set(scraped_content, url, content)
            /\ _update_system_message(scraped_content')
            /\ last' = [Logged("update_context", render_log) EXCEPT
                           !.existing = url_index(scraped_content, url) # 0]

\* A removal that renders again whether or not the url was stored.
remove_url_content_rerender(url) ==
    /\ UNCHANGED archive
    /\ IF url = <<>>
       THEN /\ UNCHANGED <<scraped_content, system, ledger>>
            /\ last' = Did("remove_url_content")
       ELSE /\ scraped_content' =
                 IF url_index(scraped_content, url) # 0
                 THEN dict_del(scraped_content, url) ELSE scraped_content
            /\ _update_system_message(scraped_content')
            /\ last' = Logged("remove_url_content",
                              IF url_index(scraped_content, url) # 0
                              THEN render_log ELSE {"not_found"})

remove_url_content(url) ==
    /\ UNCHANGED archive
    /\ IF url = <<>>
       THEN /\ UNCHANGED <<scraped_content, system, ledger>>
            /\ last' = Did("remove_url_content")
       ELSE IF url_index(scraped_content, url) # 0
       THEN /\ scraped_content' = dict_del(scraped_content, url)
            /\ _update_system_message(scraped_content')
            /\ last' = Logged("remove_url_content", render_log)
       ELSE /\ UNCHANGED <<scraped_content, system, ledger>>
            /\ last' = Logged("remove_url_content", {"not_found"})

clear_context ==
    /\ last' = Logged("clear_context", render_log)
    /\ UNCHANGED archive
    /\ scraped_content' = <<>>
    /\ _update_system_message(scraped_content')

(* -------------------------- process_message -------------------------- *)

ErrorText == <<"Error: System message corrupted">>

\* What get_llm_response does in a turn: a completion with a text, or an
\* exception of the client.
LlmOutcomes == [ok : {TRUE}, text : ReplyTexts] \cup [ok : {FALSE}, text : {<<>>}]

\* A turn that appends the count but forgets the running total.
append_message_drift(led, role, text) ==
    <<Append(led[1], [role |-> role, content |-> text]),
      Append(led[2], token_count(text)),
      led[3]>>

\* messages / messages_token_counts / total after self.messages.append(...),
\* the count of the text appended and added to the running total.
append_message(led, role, text) ==
    <<Append(led[1], [role |-> role, content |-> text]),
      Append(led[2], token_count(text)),
      led[3] + token_count(text)>>

\* A restore that leaves the cached string as it is.
restore_skipped == system

\* self.system = self.messages[0]["content"]
restore_from_messages == messages[1].content

set_ledger(led) ==
    /\ messages' = led[1]
    /\ messages_token_counts' = led[2]
    /\ total_messages_tokens' = led[3]

\* A turn that answers a failed model call with an apology of its own,
\* appended and returned as the reply.
process_message_fallback(message, llm) ==
    LET with_user == append_message(ledger, "user", message)
        reply == IF llm.ok THEN llm.text ELSE <<"sorry">>
        with_reply == append_message(with_user, "assistant", reply)
    IN  /\ UNCHANGED <<system, archive, scraped_content>>
        /\ set_ledger(with_reply)
        /\ last' = [Did("process_message") EXCEPT
                      !.ret = reply, !.called_llm = TRUE,
                      !.sent = with_user[1], !.checked = TRUE]

process_message(message, llm) ==
    LET intact == has_match(system)
        restorable == messages # <<>> /\ messages[1].role = "system"
    IN  /\ UNCHANGED <<archive, scraped_content>>
        /\ IF ~intact /\ ~restorable
           THEN /\ UNCHANGED <<system, ledger>>
                /\ last' = [Logged("process_message", {"corrupted", "could_not_restore"})
                              EXCEPT !.ret = ErrorText, !.checked = TRUE]
           ELSE LET with_user == append_message(ledger, "user", message)
                    with_reply == append_message(with_user, "assistant", llm.text)
                    log == IF intact THEN {} ELSE {"corrupted"}
                IN  /\ system' = IF intact THEN system ELSE restore_from_messages
                    /\ IF message = None
                       THEN /\ messages' = Append(messages, [role |-> "user",
                                                             content |-> message])
                            /\ UNCHANGED <<messages_token_counts, total_messages_tokens>>
                            /\ last' = [Logged("process_message", log) EXCEPT
                                          !.raised = TRUE, !.checked = TRUE]
                       ELSE IF llm.ok
                       THEN /\ set_ledger(with_reply)
                            /\ last' = [Logged("process_message", log) EXCEPT
                                          !.ret = llm.text, !.called_llm = TRUE,
                                          !.sent = with_user[1], !.checked = TRUE]
                       ELSE /\ set_ledger(with_user)
                            /\ last' = [Logged("process_message", log) EXCEPT
                                          !.raised = TRUE, !.called_llm = TRUE,
                                          !.sent = with_user[1], !.checked = TRUE]

\* execute(): the ledger handed to get_llm_response as it is; the only search
\* before the call is for [SCRAPED_PAGES_DATA], and it only logs.
execute(llm) ==
    /\ UNCHANGED <<system, ledger, archive, scraped_content>>
    /\ last' = [Did("execute") EXCEPT !.called_llm = TRUE, !.sent = messages,
                                      !.ret = llm.text, !.raised = ~llm.ok]

\* The answer of POST /chat/message for a process_message that ended as l:
\* the value returned inside an assistant message, or HTTP 500 when it raised.
response(l) ==
    IF l.raised
    THEN [status |-> 500, role |-> "none", content |-> <<>>]
    ELSE [status |-> 200, role |-> "assistant", content |-> l.ret]

send_message_response == response(last)

(* ------------------------- get_scraped_content ------------------------ *)

RECURSIVE lstrip(_)
lstrip(s) == IF s # <<>> /\ s[1] \in Whitespace THEN lstrip(Tail(s)) ELSE s

\* str.strip()
strip(s) == lstrip(rstrip(s))

\* group(1) of re.search(r'<documents>(.*?)</documents>', s, re.DOTALL),
\* stripped; the empty string when nothing matches.
documents_section(s) ==
    LET m == re_search(s)
    IN  IF m[2] = 0 THEN <<>> ELSE strip(SubSeq(s, m[1] + 1, m[2] - 1))

get_scraped_content == documents_section(system)

\* A call of get_scraped_content(): the value is returned, nothing is written.
call_get_scraped_content ==
    /\ last' = [Did("get_scraped_content") EXCEPT !.ret = get_scraped_content]
    /\ UNCHANGED <<system, ledger, archive, scraped_content>>

(* --------------------------- rolling_memory --------------------------- *)

\* The leading entries rolling_memory keeps: "if len(self.messages) <= 2" and
\* "pop(2)".
protected_head_count == 2

\* An eviction that pops index 1, the entry right after the system message.
evict_one_head(st) ==
    [m  |-> SubSeq(st.m, 1, 1) \o SubSeq(st.m, 3, Len(st.m)),
     c  |-> SubSeq(st.c, 1, 1) \o SubSeq(st.c, 3, Len(st.c)),
     pm |-> Append(st.pm, st.m[2]),
     pc |-> Append(st.pc, st.c[2]),
     t  |-> st.t - st.c[2]]

\* An eviction that drops the message instead of archiving it.
evict_one_discard(st) ==
    LET i == protected_head_count + 1
    IN  [m  |-> SubSeq(st.m, 1, i - 1) \o SubSeq(st.m, i + 1, Len(st.m)),
         c  |-> SubSeq(st.c, 1, i - 1) \o SubSeq(st.c, i + 1, Len(st.c)),
         pm |-> st.pm,
         pc |-> st.pc,
         t  |-> st.t - st.c[i]]

\* One pass of the loop body: self.messages.pop(2) and its count move to
\* the purged lists, the running total drops by the count.
evict_one(st) ==
    LET i == protected_head_count + 1
    IN  [m  |-> SubSeq(st.m, 1, i - 1) \o SubSeq(st.m, i + 1, Len(st.m)),
         c  |-> SubSeq(st.c, 1, i - 1) \o SubSeq(st.c, i + 1, Len(st.c)),
         pm |-> Append(st.pm, st.m[i]),
         pc |-> Append(st.pc, st.c[i]),
         t  |-> st.t - st.c[i]]

\* A loop that gives up after its first eviction.
rolling_loop_once(st) ==
    IF st.t >= max_message_tokens /\ ~(Len(st.m) <= protected_head_count)
    THEN evict_one(st)
    ELSE st

\* while self.total_messages_tokens >= self.max_message_tokens: break when
\* len(self.messages) <= 2, else evict one.
RECURSIVE rolling_loop(_)
rolling_loop(st) ==
    IF st.t >= max_message_tokens /\ ~(Len(st.m) <= protected_head_count)
    THEN rolling_loop(evict_one(st))
    ELSE st

rolling_memory ==
    LET st == rolling_loop([m |-> messages, c |-> messages_token_counts,
                            pm |-> purged_messages,
                            pc |-> purged_messages_token_count,
                            t |-> total_messages_tokens])
    IN  /\ messages' = st.m
        /\ messages_token_counts' = st.c
        /\ purged_messages' = st.pm
        /\ purged_messages_token_count' = st.pc
        /\ total_messages_tokens' = st.t
        /\ last' = Logged("rolling_memory",
                          (IF st.t >= max_message_tokens /\ Len(st.m) <= protected_head_count
                           THEN {"cannot_remove_more"} ELSE {})
                          \cup (IF st.t >= max_message_tokens
                                THEN {"still_at_limit"} ELSE {}))
        /\ UNCHANGED <<system, scraped_content>>

(* ------------------------- specifications ----------------------------- *)

\* The service as app/api/dependencies.py builds it.
\* The worker threads of the default executor that run_in_executor(None, ...)
\* uses, and where each one is inside the service.
Threads == 1..MaxThreads
Idle == [pc |-> "idle", message |-> <<>>]
AllIdle == [t \in Threads |-> Idle]

Init == construct(NBA_SYSTEM_PROMPT) /\ threads = AllIdle

\* One request at a time: each call runs from start to end.
UpdateContext ==
    /\ \E url \in Urls, content \in Contents : update_context(url, content)
    /\ UNCHANGED threads
RemoveUrlContent ==
    /\ \E url \in Urls \cup {<<>>} : remove_url_content(url)
    /\ UNCHANGED threads
ClearContext == clear_context /\ UNCHANGED threads
ProcessMessage ==
    /\ Len(messages) + Len(purged_messages) + 2 <= MaxMessages
    /\ \E message \in UserTexts, llm \in LlmOutcomes : process_message(message, llm)
    /\ UNCHANGED threads
RollingMemory == rolling_memory /\ UNCHANGED threads

Next ==
    \/ UpdateContext
    \/ RemoveUrlContent
    \/ ClearContext
    \/ ProcessMessage
    \/ RollingMemory

Spec == Init /\ [][Next]_vars

\* A client of the class that builds it with any system string and that
\* overwrites the public attribute self.system, the marker pair stripped.
SystemArgs == {NBA_SYSTEM_PROMPT, <<>>, <<"p", "nl">>, <<O, "p">>,
               <<C, "p", O>>, <<O, C, O, C>>}

InitAny == (\E arg \in SystemArgs : construct(arg)) /\ threads = AllIdle

strip_markers ==
    /\ Contains(system, O) \/ Contains(system, C)
    /\ system' = SelectSeq(system, LAMBDA c : c \notin {O, C})
    /\ last' = Did("strip_markers")
    /\ UNCHANGED <<ledger, archive, scraped_content>>

StripMarkers == strip_markers /\ UNCHANGED threads

\* The inputs the client of the class draws from.
HarnessUrls == {<<"a">>}
HarnessContents == {<<>>, <<"x">>, <<C>>}

UpdateContextAny ==
    /\ \E url \in HarnessUrls, content \in HarnessContents : update_context(url, content)
    /\ UNCHANGED threads
RemoveUrlContentAny ==
    /\ \E url \in HarnessUrls \cup {<<>>} : remove_url_content(url)
    /\ UNCHANGED threads

Execute == (\E llm \in LlmOutcomes : execute(llm)) /\ UNCHANGED threads

NextHarness ==
    \/ UpdateContextAny
    \/ RemoveUrlContentAny
    \/ ClearContext
    \/ ProcessMessage
    \/ RollingMemory
    \/ StripMarkers
    \/ Execute

SpecHarness == InitAny /\ [][NextHarness]_vars

\* The same client, which also overwrites the public attribute self.messages
\* and its counts, the system message at the head removed.
drop_system_message ==
    /\ messages # <<>> /\ messages[1].role = "system"
    /\ set_ledger(<<Tail(messages), Tail(messages_token_counts),
                    total_messages_tokens - messages_token_counts[1]>>)
    /\ last' = Did("drop_system_message")
    /\ UNCHANGED <<system, archive, scraped_content>>

DropSystemMessage == drop_system_message /\ UNCHANGED threads

NextTampered ==
    \/ UpdateContextAny
    \/ RemoveUrlContentAny
    \/ ClearContext
    \/ ProcessMessage
    \/ RollingMemory
    \/ StripMarkers
    \/ DropSystemMessage

SpecTampered == InitAny /\ [][NextTampered]_vars

(* ------------------ the routes, two conversations -------------------- *)

\* Bodies of POST /chat/message, as two conversations send them.
ChatRequests ==
    {[conversation_id |-> 1, message |-> <<"u">>],
     [conversation_id |-> 2, message |-> <<"v">>]}

\* Scraped entries the two conversations add with POST /chat/context/{url_id}.
UrlEntries ==
    {[url |-> <<"a">>, content |-> <<"x">>],
     [url |-> <<"b">>, content |-> <<"x">>]}

\* get_chat_service: the one _chat_service of the process, whoever asks.
get_chat_service(conversation_id) == "_chat_service"

\* The route send_message: request.get('message') goes to process_message of
\* the service; conversation_id is not read.
request_get(request, key) == IF key \in DOMAIN request THEN request[key] ELSE None

send_message(request, llm) ==
    /\ get_chat_service(request_get(request, "conversation_id")) = "_chat_service"
    /\ process_message(request_get(request, "message"), llm)

SendMessage ==
    /\ Len(messages) + Len(purged_messages) + 2 <= MaxMessages
    /\ \E request \in ChatRequests, llm \in LlmOutcomes : send_message(request, llm)
    /\ UNCHANGED threads

\* The route update_context for an entry that is complete and has content.
update_context_route(url_entry) == update_context(url_entry.url, url_entry.content)

UpdateContextRoute ==
    /\ \E url_entry \in UrlEntries : update_context_route(url_entry)
    /\ UNCHANGED threads

NextConversations ==
    \/ SendMessage
    \/ UpdateContextRoute
    \/ RemoveUrlContent
    \/ ClearContext

SpecConversations == Init /\ [][NextConversations]_vars

(* -------------------- the documents and their preview ---------------- *)

GetScrapedContent == call_get_scraped_content /\ UNCHANGED threads

NextPreview ==
    \/ UpdateContext
    \/ RemoveUrlContent
    \/ ClearContext
    \/ GetScrapedContent

SpecPreview == Init /\ [][NextPreview]_vars

(* ---------------------- the routes, any body ------------------------- *)

\* Bodies of POST /chat/message: the route takes any JSON object, with or
\* without the key 'message'.
Bodies == {[message |-> <<"u">>], [conversation_id |-> 1]}

SendAnyBody ==
    /\ Len(messages) + 2 <= MaxMessages
    /\ \E request \in Bodies, llm \in LlmOutcomes : send_message(request, llm)
    /\ UNCHANGED threads

NextBodies ==
    \/ SendAnyBody
    \/ UpdateContextRoute
    \/ RemoveUrlContent
    \/ ClearContext

SpecBodies == Init /\ [][NextBodies]_vars

(* ------------------- the routes, in the thread pool ------------------- *)

\* process_message on thread t up to the call of get_llm_response: the
\* integrity check and the user message appended.
process_message_begin(t, message) ==
    LET intact == has_match(system)
        restorable == messages # <<>> /\ messages[1].role = "system"
    IN  /\ threads[t].pc = "idle"
        /\ UNCHANGED <<archive, scraped_content>>
        /\ IF ~intact /\ ~restorable
           THEN /\ UNCHANGED <<system, ledger, threads>>
                /\ last' = [Logged("process_message", {"corrupted", "could_not_restore"})
                              EXCEPT !.ret = ErrorText, !.checked = TRUE]
           ELSE /\ system' = IF intact THEN system ELSE restore_from_messages
                /\ set_ledger(append_message(ledger, "user", message))
                /\ threads' = [threads EXCEPT ![t] = [pc |-> "llm", message |-> message]]
                /\ UNCHANGED last

\* process_message on thread t from the answer of get_llm_response on: the
\* reply appended to the ledger as it is by then, or the exception raised.
process_message_end(t, llm) ==
    /\ threads[t].pc = "llm"
    /\ UNCHANGED <<system, archive, scraped_content>>
    /\ threads' = [threads EXCEPT ![t] = Idle]
    /\ IF llm.ok
       THEN /\ set_ledger(append_message(ledger, "assistant", llm.text))
            /\ last' = [Did("process_message") EXCEPT
                          !.ret = llm.text, !.called_llm = TRUE, !.sent = messages,
                          !.checked = TRUE]
       ELSE /\ UNCHANGED ledger
            /\ last' = [Did("process_message") EXCEPT
                          !.raised = TRUE, !.called_llm = TRUE, !.sent = messages,
                          !.checked = TRUE]

\* update_context on thread t up to the store write.
update_context_begin(t, url, content) ==
    /\ threads[t].pc = "idle"
    /\ UNCHANGED <<system, ledger, archive>>
    /\ IF content = <<>>
       THEN /\ UNCHANGED <<scraped_content, threads>>
            /\ last' = Logged("update_context", {"no_content"})
       ELSE /\ scraped_content' = dict_set(scraped_content, url, content)
            /\ threads' = [threads EXCEPT ![t] = [pc |-> "render", message |-> <<>>]]
            /\ UNCHANGED last

\* update_context on thread t from the call of _update_system_message on,
\* rendering the store as it is by then.
update_context_end(t) ==
    /\ threads[t].pc = "render"
    /\ UNCHANGED <<archive, scraped_content>>
    /\ _update_system_message(scraped_content)
    /\ last' = Logged("update_context", render_log)
    /\ threads' = [threads EXCEPT ![t] = Idle]

TurnBegin ==
    /\ Len(messages) + Len(purged_messages) + 2 <= MaxMessages
    /\ \E t \in Threads, request \in ChatRequests :
          process_message_begin(t, request.message)
TurnEnd == \E t \in Threads, llm \in LlmOutcomes : process_message_end(t, llm)
UpdateBegin ==
    \E t \in Threads, url_entry \in UrlEntries :
        update_context_begin(t, url_entry.url, url_entry.content)
UpdateEnd == \E t \in Threads : update_context_end(t)

NextThreads ==
    \/ TurnBegin
    \/ TurnEnd
    \/ UpdateBegin
    \/ UpdateEnd

SpecThreads == Init /\ [][NextThreads]_vars

(* ------------ the thread pool, the running total step by step -------- *)

\* A pool thread inside a call: where it is, the user message of its turn,
\* the reply it got, and the value it has computed for the running total
\* and not yet stored.
Running(pc, message, reply, local) ==
    [pc |-> pc, message |-> message, reply |-> reply, local |-> local]

\* process_message on thread t, lines 168-183 up to the load of
\* self.total_messages_tokens in "+= message_tokens": the message and its
\* count are appended, the new total is computed and not yet stored.
process_message_append_user(t, message) ==
    LET intact == has_match(system)
        restorable == messages # <<>> /\ messages[1].role = "system"
    IN  /\ threads[t].pc = "idle"
        /\ UNCHANGED <<archive, scraped_content, total_messages_tokens>>
        /\ IF ~intact /\ ~restorable
           THEN /\ UNCHANGED <<system, messages, messages_token_counts, threads>>
                /\ last' = [Logged("process_message", {"corrupted", "could_not_restore"})
                              EXCEPT !.ret = ErrorText, !.checked = TRUE]
           ELSE /\ system' = IF intact THEN system ELSE restore_from_messages
                /\ messages' = Append(messages, [role |-> "user", content |-> message])
                /\ messages_token_counts' =
                      Append(messages_token_counts, token_count(message))
                /\ threads' = [threads EXCEPT ![t] =
                      Running("user_total", message, <<>>,
                              total_messages_tokens + token_count(message))]
                /\ UNCHANGED last

\* The store of "+= message_tokens" (line 183), then on to get_llm_response.
process_message_store_user_total(t) ==
    /\ threads[t].pc = "user_total"
    /\ total_messages_tokens' = threads[t].local
    /\ threads' = [threads EXCEPT ![t].pc = "llm"]
    /\ UNCHANGED <<system, messages, messages_token_counts, archive,
                   scraped_content, last>>

\* get_llm_response answers (line 188): it raises, or lines 189-197 up to the
\* load of the total in "+= response_tokens".
process_message_append_reply(t, llm) ==
    /\ threads[t].pc = "llm"
    /\ "local" \in DOMAIN threads[t]
    /\ UNCHANGED <<system, archive, scraped_content, total_messages_tokens>>
    /\ IF llm.ok
       THEN /\ messages' = Append(messages, [role |-> "assistant", content |-> llm.text])
            /\ messages_token_counts' =
                  Append(messages_token_counts, token_count(llm.text))
            /\ threads' = [threads EXCEPT ![t] =
                  Running("reply_total", threads[t].message, llm.text,
                          total_messages_tokens + token_count(llm.text))]
            /\ UNCHANGED last
       ELSE /\ UNCHANGED <<messages, messages_token_counts>>
            /\ threads' = [threads EXCEPT ![t] = Idle]
            /\ last' = [Did("process_message") EXCEPT
                          !.raised = TRUE, !.called_llm = TRUE, !.sent = messages,
                          !.checked = TRUE]

\* The store of "+= response_tokens" (line 197) and the return (199).
process_message_store_reply_total(t) ==
    /\ threads[t].pc = "reply_total"
    /\ total_messages_tokens' = threads[t].local
    /\ threads' = [threads EXCEPT ![t] = Idle]
    /\ last' = [Did("process_message") EXCEPT
                  !.ret = threads[t].reply, !.called_llm = TRUE, !.checked = TRUE]
    /\ UNCHANGED <<system, messages, messages_token_counts, archive, scraped_content>>

\* _update_system_message on thread t, lines 76-109 up to the call of
\* sum(self.messages_token_counts): the string, messages[0] and its count
\* are written, the sum is computed and not yet stored.
_update_system_message_sum(t) ==
    LET parts == re_split(system)
        new == new_system(parts[1], scraped_content, parts[3])
        head == messages # <<>> /\ messages[1].role = "system"
        counts == [messages_token_counts EXCEPT ![1] = token_count(new)]
    IN  /\ threads[t].pc = "render"
        /\ UNCHANGED <<archive, scraped_content, total_messages_tokens>>
        /\ IF Len(parts) # 3
           THEN /\ UNCHANGED <<system, messages, messages_token_counts>>
                /\ threads' = [threads EXCEPT ![t] = Idle]
                /\ last' = Logged("update_context", {"invalid_structure"})
           ELSE /\ system' = new
                /\ Len(new) <= MaxSysLen
                /\ IF head
                   THEN /\ messages' = [messages EXCEPT ![1].content = new]
                        /\ messages_token_counts' = counts
                        /\ threads' = [threads EXCEPT ![t] =
                              Running("render_total", <<>>, <<>>, SumSeq(counts))]
                        /\ UNCHANGED last
                   ELSE /\ UNCHANGED <<messages, messages_token_counts>>
                        /\ threads' = [threads EXCEPT ![t] = Idle]
                        /\ last' = Logged("update_context", {"updated"})

\* The store of "self.total_messages_tokens = sum(...)" (line 109) and the
\* return of update_context.
_update_system_message_store_total(t) ==
    /\ threads[t].pc = "render_total"
    /\ total_messages_tokens' = threads[t].local
    /\ threads' = [threads EXCEPT ![t] = Idle]
    /\ last' = Logged("update_context", {"updated"})
    /\ UNCHANGED <<system, messages, messages_token_counts, archive, scraped_content>>

TurnAppendUser ==
    /\ Len(messages) + 2 <= MaxMessages
    /\ \E t \in Threads, message \in UserTexts : process_message_append_user(t, message)
TurnStoreUserTotal == \E t \in Threads : process_message_store_user_total(t)
TurnAppendReply ==
    \E t \in Threads, llm \in LlmOutcomes : process_message_append_reply(t, llm)
TurnStoreReplyTotal == \E t \in Threads : process_message_store_reply_total(t)
RenderSum == \E t \in Threads : _update_system_message_sum(t)
RenderStoreTotal == \E t \in Threads : _update_system_message_store_total(t)

NextRaces ==
    \/ TurnAppendUser
    \/ TurnStoreUserTotal
    \/ TurnAppendReply
    \/ TurnStoreReplyTotal
    \/ UpdateBegin
    \/ RenderSum
    \/ RenderStoreTotal

SpecRaces == Init /\ [][NextRaces]_vars

(* ------------------------------ claims -------------------------------- *)

TurnCompleted == last.op = "process_message" /\ last.called_llm /\ ~last.raised

\* C1: after every call of update_context, remove_url_content, clear_context,
\* process_message and rolling_memory, in any order, the running total
\* equals the sum of the per-message token counts.
C1_TokenInvariant == total_messages_tokens = SumSeq(messages_token_counts)

\* A document, an eviction and then a turn have all acted on the ledger.
C1_Witness ==
    /\ TurnCompleted
    /\ purged_messages # <<>>
    /\ scraped_content # <<>>
    /\ Len(messages) > protected_head_count

\* C2: after every completed turn either the total is strictly below the
\* budget or only the protected head entries remain in the ledger.
C2_EvictionAfterTurn ==
    TurnCompleted =>
        \/ total_messages_tokens < max_message_tokens
        \/ Len(messages) <= protected_head_count

\* C3: rolling_memory leaves the entries below protected_head_count (the
\* system message at index 0 among them) at their indices, with the same
\* content and the same token counts.
C3_HeadUntouched ==
    [][last'.op = "rolling_memory" =>
        \A i \in 1..protected_head_count :
            i <= Len(messages) =>
                /\ i <= Len(messages')
                /\ messages'[i] = messages[i]
                /\ messages_token_counts'[i] = messages_token_counts[i]]_vars

\* rolling_memory has evicted at least two entries and stopped under budget.
C3_Witness ==
    /\ last.op = "rolling_memory"
    /\ Len(purged_messages) >= 2
    /\ Len(messages) >= protected_head_count

\* C4: with protection of the system message only, the entry an eviction
\* removes first is the oldest non-system message, the one at index 1.
C4_EvictsOldestNonSystem ==
    [][(last'.op = "rolling_memory" /\ Len(purged_messages') > Len(purged_messages)) =>
        purged_messages'[Len(purged_messages) + 1] = messages[2]]_vars

\* C5: when the head alone costs at least the budget, a completed turn
\* reports that eviction is exhausted, and the head stays.
C5_ExhaustionReportedInTurn ==
    (TurnCompleted /\ messages_token_counts[1] >= max_message_tokens) =>
        /\ "still_at_limit" \in last.log
        /\ messages[1].role = "system"

DocumentOps == {"update_context", "remove_url_content", "clear_context"}

Count(s, c) == Cardinality({i \in 1..Len(s) : s[i] = c})

\* Exactly one <documents> and one </documents>, in that order.
OnePair(s) ==
    /\ Count(s, O) = 1
    /\ Count(s, C) = 1
    /\ IndexFrom(s, O, 1) < IndexFrom(s, C, 1)

\* C6: after construction and after any sequence of document operations
\* the system message holds the opening and the closing marker exactly once
\* each, in that order.
C6_MarkerInvariant ==
    /\ messages # <<>>
    /\ messages[1].role = "system"
    /\ OnePair(messages[1].content)
    /\ OnePair(system)

\* C7: after every document operation that rendered without error, the
\* document section of the system message is one fragment per stored
\* document, in insertion order, numbered from 1, key and content verbatim.
C7_SectionMirrorsStore ==
    (last.op \in DocumentOps /\ "invalid_structure" \notin last.log) =>
        documents_section(messages[1].content)
            = strip(documents_content(scraped_content))

\* C8: remove_url_content(k) with k empty or not stored leaves the store, the
\* cached system string, the ledger (entries, counts, total) and the
\* archive as they were, and raises nothing.
C8_RemoveAbsentNoChange ==
    [][\A url \in Urls \cup {<<>>} :
          (/\ url = <<>> \/ url_index(scraped_content, url) = 0
           /\ remove_url_content(url)) =>
              /\ UNCHANGED <<scraped_content, system, ledger, archive>>
              /\ ~last'.raised
              /\ "invalid_structure" \notin last'.log]_vars

\* A removal of a url that is not stored, with a document stored and a turn
\* in the ledger.
C8_Witness ==
    /\ last.op = "remove_url_content"
    /\ "not_found" \in last.log
    /\ scraped_content # <<>>
    /\ Len(messages) > 1

\* messages[0] is a system message with exactly one documents section.
ValidHead ==
    /\ messages # <<>>
    /\ messages[1].role = "system"
    /\ Len(re_split(messages[1].content)) = 3

\* C9: when the cached system string has no marker pair and messages[0] is
\* a valid system message, process_message does not report corruption as
\* fatal, resynchronizes the cached string to messages[0].content and
\* appends the user message.
C9_RestoreFromLedger ==
    [][(last'.op = "process_message" /\ ~has_match(system) /\ ValidHead) =>
          /\ last'.ret # ErrorText
          /\ "could_not_restore" \notin last'.log
          /\ system' = messages'[1].content
          /\ Len(messages') > Len(messages)
          /\ SubSeq(messages', 1, Len(messages)) = messages
          /\ messages'[Len(messages) + 1].role = "user"
          /\ messages'[Len(messages) + 1].content \in UserTexts]_vars

\* A turn that found the cached string without markers and restored it from
\* a valid messages[0].
C9_Witness ==
    /\ last.op = "process_message"
    /\ "corrupted" \in last.log
    /\ ValidHead
    /\ system = messages[1].content
    /\ Len(messages) >= 2

\* C10: when the cached system string has no marker pair and messages[0]
\* holds no valid marker pair (or is no system message), process_message
\* fails with a corruption error that is neither an assistant reply nor a
\* transport failure, appends nothing, changes no count and does not call
\* the model.
C10_CorruptionErrorWhenUnrestorable ==
    [][(last'.op = "process_message" /\ ~has_match(system) /\ ~ValidHead) =>
          /\ last'.ret = ErrorText
          /\ response(last').role # "assistant"
          /\ response(last').status # 500
          /\ ~last'.called_llm
          /\ UNCHANGED ledger]_vars

\* C11: a document operation called while the stored system string holds
\* zero or more than one marker pair fails with an error its caller sees.
C11_RenderFailureRaised ==
    (last.op \in DocumentOps /\ "invalid_structure" \in last.log) => last.raised

StartsWith(s, pre) == Len(pre) <= Len(s) /\ SubSeq(s, 1, Len(pre)) = pre
EndsWith(s, suf) ==
    Len(suf) <= Len(s) /\ SubSeq(s, Len(s) - Len(suf) + 1, Len(s)) = suf

\* C12: for every constructor argument that does not hold exactly one
\* well-formed marker pair, the system message after construction is the
\* given text followed by an empty documents section, and so holds exactly
\* one well-formed marker pair.
C12_ConstructionRepairs ==
    last.op = "init" =>
        \A arg \in SystemArgs :
            (system = init_system(arg) /\ ~OnePair(arg)) =>
                /\ messages # <<>>
                /\ messages[1] = [role |-> "system", content |-> system]
                /\ StartsWith(system, rstrip(arg))
                /\ EndsWith(system, <<O, "nl", C>>)
                /\ OnePair(system)

\* C15: in every state reached by document operations, turns and
\* evictions, the cached system string equals the content of messages[0].
C15_CacheEqualsHead ==
    /\ messages # <<>>
    /\ system = messages[1].content

\* A document has been rendered, a turn appended and an entry evicted.
C15_Witness ==
    /\ scraped_content # <<>>
    /\ system # NBA_SYSTEM_PROMPT
    /\ purged_messages # <<>>
    /\ TurnCompleted

\* C16: in every state after construction, for any constructor argument, the
\* ledger is non-empty, messages[0] has role system and no other entry has.
C16_HeadIsSystem ==
    /\ messages # <<>>
    /\ messages[1].role = "system"
    /\ \A i \in 2..Len(messages) : messages[i].role # "system"

\* The service built from the empty string, after turns and an eviction.
C16_Witness ==
    /\ messages # <<>>
    /\ messages[1].content # <<>>
    /\ messages[1].content[1] = O
    /\ Count(messages[1].content, O) = 1
    /\ Len(messages) > 2
    /\ purged_messages # <<>>

\* C17: update_context(url, "") leaves the store, the system string, every
\* ledger entry, the counts, the running total and the archive unchanged,
\* whether or not url is stored.
C17_EmptyContentNoOp ==
    [][\A url \in Urls :
          update_context(url, <<>>) =>
              UNCHANGED <<scraped_content, system, ledger, archive>>]_vars

\* An update with empty content for a url that is stored, after a turn.
C17_Witness ==
    /\ last.op = "update_context"
    /\ "no_content" \in last.log
    /\ Len(scraped_content) = 2
    /\ Len(messages) > 1

\* C18: a document operation that renders again with the store unchanged,
\* after an operation that rendered, yields the same system message, for
\* every stored content.
C18_RenderIdempotent ==
    [][(/\ last.op \in DocumentOps /\ "updated" \in last.log
        /\ last'.op \in DocumentOps /\ "updated" \in last'.log
        /\ scraped_content' = scraped_content) =>
            /\ system' = system
            /\ messages' = messages]_vars

\* C20: update_context for a url that is already stored replaces its content
\* in place: the store keeps its length and order, every other entry is
\* unchanged, and after the render every document's fragment, with its
\* 1-based store index, occurs in the system message.
C20_UpsertKeepsPosition ==
    [][\A url \in Urls, content \in Contents \ {<<>>} :
         (update_context(url, content) /\ url_index(scraped_content, url) # 0) =>
            LET i == url_index(scraped_content, url)
            IN  /\ Len(scraped_content') = Len(scraped_content)
                /\ scraped_content'[i] = [url |-> url, content |-> content]
                /\ \A j \in 1..Len(scraped_content) :
                      j # i => scraped_content'[j] = scraped_content[j]
                /\ "updated" \in last'.log =>
                      \A j \in 1..Len(scraped_content') :
                          Occurs(document_fragment(j, scraped_content'[j].url,
                                                   scraped_content'[j].content),
                                 system')]_vars

\* The first of two stored documents has just been overwritten and rendered.
C20_Witness ==
    /\ last.op = "update_context" /\ last.existing /\ "updated" \in last.log
    /\ Len(scraped_content) = 2
    /\ \E content \in Contents :
          Occurs(document_fragment(1, scraped_content[1].url, content), system)

\* The conversation a user message or a url came from.
conversation_of_message(text) ==
    (CHOOSE request \in ChatRequests : request.message = text).conversation_id

conversation_of_url(url) == IF url = <<"a">> THEN 1 ELSE 2

UserIndices == {i \in 1..Len(messages) : messages[i].role = "user"}

\* The conversation of the turn that called the model last.
turn_conversation ==
    conversation_of_message(
        messages[CHOOSE i \in UserIndices : \A j \in UserIndices : j <= i].content)

\* C14: what is sent to the model for a turn of one conversation holds no
\* user message and no document of another conversation.
C14_ConversationIsolation ==
    last.called_llm =>
        /\ \A i \in UserIndices :
              conversation_of_message(messages[i].content) = turn_conversation
        /\ \A i \in 1..Len(scraped_content) :
              Occurs(document_fragment(i, scraped_content[i].url,
                                       scraped_content[i].content),
                     messages[1].content)
                  => conversation_of_url(scraped_content[i].url) = turn_conversation

\* C13: at most one request is inside update_context or process_message of
\* the service at any time.
C13_MutualExclusion ==
    Cardinality({t \in Threads : threads[t].pc # "idle"}) <= 1

\* process_message returned the corruption error without calling the model.
CorruptionError ==
    /\ last.op = "process_message" /\ ~last.raised /\ ~last.called_llm
    /\ last.ret = ErrorText /\ "could_not_restore" \in last.log

\* C19: once process_message has returned the corruption error, every later
\* process_message returns it too, whatever update_context,
\* remove_url_content, clear_context, rolling_memory or turns come between.
C19_CorruptedIsTerminal ==
    [](CorruptionError => [](last.op = "process_message" => CorruptionError))

\* A turn fails with the corruption error while the store holds a document
\* that was added after the markers were lost and so was never rendered.
C19_Witness ==
    /\ CorruptionError
    /\ \E i \in 1..Len(scraped_content) :
          /\ scraped_content[i].content = <<"x">>
          /\ ~Occurs(document_fragment(i, scraped_content[i].url, <<"x">>), system)

\* Prefix and suffix of a system string around its documents section.
before_docs(s) == re_split(s)[1]
after_docs(s) == re_split(s)[Len(re_split(s))]

\* C21: after clear_context the store is empty, the documents section of
\* messages[0] and of the cached string holds no fragment (the preview is the
\* empty string), and the text before and after the section is unchanged.
C21_ClearEmptiesContext ==
    [][clear_context =>
          /\ scraped_content' = <<>>
          /\ documents_section(messages'[1].content) = <<>>
          /\ get_scraped_content' = <<>>
          /\ before_docs(system') = before_docs(system)
          /\ after_docs(system') = after_docs(system)]_vars

\* C22: the list a turn hands to the model starts with the system message, is
\* the ledger as it was before the turn followed by the turn's user message,
\* and so ends with that user message.
C22_ModelReceivesLedger ==
    [][\A t \in Threads, llm \in LlmOutcomes :
         process_message_end(t, llm) =>
            /\ last'.sent # <<>>
            /\ last'.sent[1] = [role |-> "system", content |-> system]
            /\ last'.sent = messages
            /\ last'.sent[Len(last'.sent)] =
                  [role |-> "user", content |-> threads[t].message]]_vars

\* C23: every call that hands the ledger to the model has run the marker-pair
\* check of self.system before it, in the same call.
C23_CheckBeforeModelCall == last.called_llm => last.checked

IsPrefix(s, t) == Len(s) <= Len(t) /\ SubSeq(t, 1, Len(s)) = s

\* The token counts of the contents of the messages of s from index from on.
RECURSIVE ContentTokens(_, _)
ContentTokens(s, from) ==
    IF from > Len(s) THEN 0
    ELSE token_count(s[from].content) + ContentTokens(s, from + 1)

\* The ledger and the archive balance: the running total plus the archived
\* counts is the head's count plus the count of every message appended.
ArchiveBalance ==
    /\ Len(purged_messages) = Len(purged_messages_token_count)
    /\ \A i \in 1..Len(purged_messages) :
          purged_messages_token_count[i] = token_count(purged_messages[i].content)
    /\ total_messages_tokens + SumSeq(purged_messages_token_count) =
          messages_token_counts[1] + ContentTokens(messages, 2)
          + ContentTokens(purged_messages, 1)

C26_DocumentOpsFrame ==
    [][last'.op \in DocumentOps =>
          /\ before_docs(messages'[1].content) = before_docs(messages[1].content)
          /\ after_docs(messages'[1].content) = after_docs(messages[1].content)
          /\ Len(messages') = Len(messages)
          /\ \A i \in 2..Len(messages) :
                /\ messages'[i] = messages[i]
                /\ messages_token_counts'[i] = messages_token_counts[i]
          /\ UNCHANGED archive]_vars

\* C27: when get_llm_response raises in a turn, process_message has called it
\* once, raises to its caller (the route answers 500, no reply is returned)
\* and appends nothing after the user message.
C27_FailurePassedThrough ==
    [][\A message \in UserTexts, llm \in LlmOutcomes :
         (process_message(message, llm) /\ ~llm.ok) =>
            /\ last'.called_llm /\ last'.raised /\ last'.ret = <<>>
            /\ response(last').status = 500
            /\ messages' = Append(messages, [role |-> "user", content |-> message])
            /\ last'.sent = messages']_vars

\* A turn after a completed one has failed in the model call.
C27_Witness ==
    /\ last.op = "process_message" /\ last.called_llm /\ last.raised
    /\ Len(messages) >= 4
    /\ messages[Len(messages)].role = "user"
    /\ messages[Len(messages) - 1].role = "assistant"

\* C28: a turn whose model call fails leaves the ledger and its running total
\* as they were before the turn.
C28_FailedTurnRolledBack ==
    [][\A message \in UserTexts, llm \in LlmOutcomes :
         (process_message(message, llm) /\ ~llm.ok) => UNCHANGED ledger]_vars

\* C29: a document operation whose render stops at the structure check
\* leaves the store as it was before the call.
C29_FailedRenderKeepsStore ==
    [][(last'.op \in DocumentOps /\ "invalid_structure" \in last'.log) =>
          UNCHANGED scraped_content]_vars

\* C30: after every operation the ledger holds one token count per message,
\* the archive one count per archived message, and each stored count is the
\* token count of the entry's content.
C30_ListsAligned ==
    /\ Len(messages) = Len(messages_token_counts)
    /\ Len(purged_messages) = Len(purged_messages_token_count)
    /\ \A i \in 1..Len(messages) :
          /\ messages[i].content # None
          /\ messages_token_counts[i] = token_count(messages[i].content)

\* C31: once every request running in the thread pool has finished, the
\* running total is the sum of the per-message token counts.
C31_TotalAfterConcurrentRequests ==
    (\A t \in Threads : threads[t].pc = "idle") =>
        total_messages_tokens = SumSeq(messages_token_counts)

\* The documents section as _update_system_message renders it for the store,
\* trimmed.
rendered_section == strip(<<"nl">> \o documents_content(scraped_content) \o <<"nl">>)

\* C32: get_scraped_content changes no state and returns the whole rendered
\* documents section of the store, trimmed, or the empty string when the
\* system string has no marker pair.
C32_PreviewFaithful ==
    [][call_get_scraped_content =>
          /\ UNCHANGED <<system, ledger, archive, scraped_content>>
          /\ last'.ret = IF has_match(system) THEN rendered_section ELSE <<>>]_vars

====
